---------------------------- MODULE Spec2Model ----------------------------
(***************************************************************************)
(* State-machine model of the OpenPGP session-key packet codec             *)
(* (openpgp/packet/encrypted_key.go) and of the key/entity generation      *)
(* (openpgp key_generation).                                               *)
(*                                                                         *)
(* Byte strings are sequences of naturals 0..255.  A uint64 key id is kept *)
(* as its 8-byte big-endian string (TLC integers are 32 bits wide); the    *)
(* zero key id is the string of eight zero bytes.                          *)
(***************************************************************************)
EXTENDS Integers, Sequences, FiniteSets, TLC

VARIABLES
    pc,         \* position of the packet pipeline: start/written/parsed/decrypted
    call,       \* arguments of the SerializeEncryptedKeyAEAD call under way
    w,          \* the io.Writer: declared body length (hdr) and body bytes
    serErr,     \* error returned by SerializeEncryptedKeyAEAD
    e,          \* the EncryptedKey struct filled by parse and Decrypt
    parseRes,   \* result of EncryptedKey.parse: error, bytes the fields left unread
    priv,       \* the private key handed to Decrypt
    dec,        \* outcome of Decrypt: error, primitive invoked, primitive output
    config,     \* the packet.Config the key-generation calls are given
    rsaPrimes,  \* config.RSAPrimes, consumed by RSA key generation
    entity,     \* the Entity: primary key, identities, subkeys
    last,       \* the last key-generation call: operation, error, key made
    rsa,        \* generateRSAKeyWithPrimes: position, arguments, primes, result
    ck          \* a session key taken through encodeChecksumKey, decodeChecksumKey

pkeskVars == <<pc, call, w, serErr, e, parseRes, priv, dec>>

entityVars == <<config, rsaPrimes, entity, last>>

rsaVars == <<rsa>>

checksumVars == <<ck>>

vars == <<pkeskVars, entityVars, rsaVars, checksumVars>>

-----------------------------------------------------------------------------
(* Bounds of the model *)

\* number of distinct key pairs per (algorithm, key version)
NumKeys == 2
\* number of distinct session-key byte patterns per key length
MaxSeed == 1
\* maximum number of trailing bytes appended to a received packet
MaxTrail == 2

-----------------------------------------------------------------------------
(* Algorithm and cipher identifiers (packet.PublicKeyAlgorithm,            *)
(* packet.CipherFunction)                                                  *)

PubKeyAlgoRSA == 1
PubKeyAlgoRSAEncryptOnly == 2
PubKeyAlgoRSASignOnly == 3
PubKeyAlgoElGamal == 16
PubKeyAlgoDSA == 17
PubKeyAlgoECDH == 18
PubKeyAlgoECDSA == 19
PubKeyAlgoEdDSA == 22
PubKeyAlgoX25519 == 25
PubKeyAlgoX448 == 26
PubKeyAlgoKyber768X25519 == 29
PubKeyAlgoKyber1024X448 == 30
PubKeyAlgoKyber768P256 == 31
PubKeyAlgoKyber1024P384 == 32
PubKeyAlgoKyber768Brainpool256 == 33
PubKeyAlgoKyber1024Brainpool384 == 34
PubKeyAlgoDilithium3Ed25519 == 35
PubKeyAlgoDilithium5Ed448 == 36
PubKeyAlgoDilithium3p256 == 37
PubKeyAlgoDilithium5p384 == 38
PubKeyAlgoDilithium3Brainpool256 == 39
PubKeyAlgoDilithium5Brainpool384 == 40
PubKeyAlgoSphincsPlusSha2 == 41
PubKeyAlgoSphincsPlusShake == 42

AllAlgos == PubKeyAlgoRSA..PubKeyAlgoRSASignOnly \cup PubKeyAlgoElGamal..PubKeyAlgoECDSA
               \cup {PubKeyAlgoEdDSA} \cup PubKeyAlgoX25519..PubKeyAlgoSphincsPlusShake

KyberAlgos ==
    {PubKeyAlgoKyber768X25519, PubKeyAlgoKyber1024X448, PubKeyAlgoKyber768P256,
     PubKeyAlgoKyber1024P384, PubKeyAlgoKyber768Brainpool256,
     PubKeyAlgoKyber1024Brainpool384}

ClassicalAlgos ==
    {PubKeyAlgoRSA, PubKeyAlgoRSAEncryptOnly, PubKeyAlgoElGamal, PubKeyAlgoECDH}

CfrgAlgos == {PubKeyAlgoX25519, PubKeyAlgoX448}

\* the algorithms SerializeEncryptedKeyAEAD has an encryptor for
EncryptAlgos == ClassicalAlgos \cup CfrgAlgos \cup KyberAlgos

CipherIDEA == 1
Cipher3DES == 2
CipherCAST5 == 3
CipherAES128 == 7
CipherAES192 == 8
CipherAES256 == 9

AESCiphers == {CipherAES128, CipherAES192, CipherAES256}

\* CipherFunction.IsSupported
IsSupported(c) == c \in {Cipher3DES, CipherCAST5, CipherAES128, CipherAES192, CipherAES256}

-----------------------------------------------------------------------------
(* Byte-string helpers *)

Rep(n, b) == [i \in 1..n |-> b]

Min(a, b) == IF a < b THEN a ELSE b

Drop(s, n) == SubSeq(s, n + 1, Len(s))

Zero8 == Rep(8, 0)

\* number of significant bits of one byte
BitLen8(b) ==
    IF b >= 128 THEN 8 ELSE IF b >= 64 THEN 7 ELSE IF b >= 32 THEN 6
    ELSE IF b >= 16 THEN 5 ELSE IF b >= 8 THEN 4 ELSE IF b >= 4 THEN 3
    ELSE IF b >= 2 THEN 2 ELSE IF b >= 1 THEN 1 ELSE 0

RECURSIVE StripZeros(_)
StripZeros(s) == IF s # <<>> /\ Head(s) = 0 THEN StripZeros(Tail(s)) ELSE s

\* encoding.NewMPI(bytes).EncodedBytes(): 2-byte bit length, then the bytes
\* without leading zero bytes
EncodeMPI(bytes) ==
    LET s == StripZeros(bytes)
        bits == IF s = <<>> THEN 0 ELSE 8 * (Len(s) - 1) + BitLen8(Head(s))
    IN  <<bits \div 256, bits % 256>> \o s

\* encoding.NewOID(bytes).EncodedBytes(): 1-byte length, then the bytes
EncodeOID(bytes) == <<Len(bytes) % 256>> \o bytes

\* io.ReadFull(r, buf) with len(buf) = n; reading 0 bytes always succeeds
ReadFull(r, n) ==
    IF Len(r) >= n
    THEN [ok |-> TRUE, data |-> SubSeq(r, 1, n), rest |-> Drop(r, n)]
    ELSE [ok |-> FALSE, data |-> <<>>, rest |-> <<>>]

\* encoding.MPI.ReadFrom
ReadMPI(r) ==
    LET h == ReadFull(r, 2) IN
    IF ~h.ok THEN h
    ELSE ReadFull(h.rest, (h.data[1] * 256 + h.data[2] + 7) \div 8)

\* encoding.OID.ReadFrom
ReadOID(r) ==
    LET h == ReadFull(r, 1) IN
    IF ~h.ok THEN h ELSE ReadFull(h.rest, h.data[1])


-----------------------------------------------------------------------------
(* Keys.  A key pair is identified by (algorithm, key version, number); the *)
(* public part carries the fingerprint and the key id derived from it.      *)

KeyVersions == {4, 5, 6}

\* 20 bytes for a V4 key, 32 bytes for a V5/V6 key
FingerprintLen(v) == IF v = 4 THEN 20 ELSE 32

\* two bytes that identify the key pair
KeyTag(a, v, n) == <<a, v * 16 + n>>

\* a digest of the key: no two keys agree on a byte, no two windows of a
\* fingerprint agree
FingerprintOf(a, v, n) ==
    [i \in 1..FingerprintLen(v) |-> (KeyTag(a, v, n)[2 - (i % 2)] + i) % 256]

\* key id: bytes 12..19 of a V4 fingerprint, bytes 0..7 of a V5/V6 one
KeyIdOf(fp, v) == IF v = 4 THEN SubSeq(fp, 13, 20) ELSE SubSeq(fp, 1, 8)

MakeKey(a, v, n) ==
    [PubKeyAlgo  |-> a,
     Version     |-> v,
     num         |-> n,
     Fingerprint |-> FingerprintOf(a, v, n),
     KeyId       |-> KeyIdOf(FingerprintOf(a, v, n), v)]

\* algorithms a public key handed to the serializer may have
KeyAlgos == EncryptAlgos \cup {PubKeyAlgoDSA, PubKeyAlgoRSASignOnly, PubKeyAlgoECDSA}

Keys == {MakeKey(a, v, n) : a \in KeyAlgos, v \in KeyVersions, n \in 1..NumKeys}

NoKey == [PubKeyAlgo |-> 0, Version |-> 0, num |-> 0, Fingerprint |-> <<>>, KeyId |-> Zero8]

TagOf(k) == KeyTag(k.PubKeyAlgo, k.Version, k.num)

-----------------------------------------------------------------------------
(* Primitive facade.  The primitives are black boxes of other packages; the *)
(* model keeps their contract: what a key pair's public half encrypts, its  *)
(* private half decrypts, and no other private key does.  A ciphertext      *)
(* carries the recipient's tag and the plaintext.                           *)

\* key wrapping adds 8 bytes
Wrap(k, m) == TagOf(k) \o Rep(6, 165) \o m

Unwrap(k, c) ==
    IF Len(c) >= 8 /\ SubSeq(c, 1, 2) = TagOf(k)
    THEN [ok |-> TRUE, b |-> Drop(c, 8)]
    ELSE [ok |-> FALSE, b |-> <<>>]

\* fixed component lengths of the Kyber hybrids (readKyberECDHKey arguments)
LenEccX25519 == 32
LenEccX448 == 56
LenEccP256 == 65
LenEccP384 == 97
LenKyber768 == 1088
LenKyber1024 == 1568

KyberEccLen(a) ==
    CASE a = PubKeyAlgoKyber768X25519 -> LenEccX25519
      [] a = PubKeyAlgoKyber1024X448 -> LenEccX448
      [] a = PubKeyAlgoKyber768P256 -> LenEccP256
      [] a = PubKeyAlgoKyber1024P384 -> LenEccP384
      [] a = PubKeyAlgoKyber768Brainpool256 -> LenEccP256
      [] a = PubKeyAlgoKyber1024Brainpool384 -> LenEccP384

KyberCtLen(a) ==
    IF a \in {PubKeyAlgoKyber768X25519, PubKeyAlgoKyber768P256, PubKeyAlgoKyber768Brainpool256}
    THEN LenKyber768 ELSE LenKyber1024

\* x25519.KeySize / x448.KeySize
CfrgKeySize(a) == IF a = PubKeyAlgoX25519 THEN LenEccX25519 ELSE LenEccX448

\* an ephemeral public value of n bytes made for recipient k
Ephemeral(k, n) == [i \in 1..n |-> TagOf(k)[2 - (i % 2)]]

-----------------------------------------------------------------------------
(* Session-key envelope *)

RECURSIVE SumBytes(_)
SumBytes(s) == IF s = <<>> THEN 0 ELSE Head(s) + SumBytes(Tail(s))

\* checksumKeyMaterial: uint16 sum of the bytes
checksumKeyMaterial(key) == SumBytes(key) % 65536

\* the checksum written low byte first
encodeChecksumKey_LittleEndian(key) ==
    key \o <<checksumKeyMaterial(key) % 256, checksumKeyMaterial(key) \div 256>>

\* encodeChecksumKey: key followed by the big-endian checksum
encodeChecksumKey(key) ==
    key \o <<checksumKeyMaterial(key) \div 256, checksumKeyMaterial(key) % 256>>

\* the keyBlock switch of SerializeEncryptedKeyAEAD; an algorithm outside
\* both cases leaves keyBlock nil
KeyBlock(algo, version, cipherFunc, key) ==
    IF algo \in ClassicalAlgos
    THEN (IF version < 6 THEN <<cipherFunc>> ELSE <<>>) \o encodeChecksumKey(key)
    ELSE IF algo \in CfrgAlgos THEN key
    ELSE <<>>

-----------------------------------------------------------------------------
(* SerializeEncryptedKeyAEAD and the per-algorithm serializers.  Each       *)
(* serializer returns what it wrote: the body length it declared in the     *)
(* packet header (hdr) and the body bytes that follow the header.           *)

NothingWritten == [hdr |-> -1, body |-> <<>>]

\* x25519.EncodedFieldsLength / x448.EncodedFieldsLength
EncodedFieldsLength(keySize, ciphertext, v6) ==
    keySize + 1 + Len(ciphertext) + (IF v6 THEN 0 ELSE 1)

\* x25519.EncodeFields / x448.EncodeFields
EncodeFields(ephemeral, ciphertext, cipherFunc, v6) ==
    ephemeral \o <<Len(ciphertext)>> \o ciphertext
        \o (IF v6 THEN <<>> ELSE <<cipherFunc>>)

serializeEncryptedKeyRSA(header, pub, keyBlock) ==
    LET cipherMPI == EncodeMPI(TagOf(pub) \o keyBlock) IN
    [hdr |-> Len(header) + Len(cipherMPI), body |-> header \o cipherMPI]

serializeEncryptedKeyElGamal(header, pub, keyBlock) ==
    LET c1 == StripZeros(TagOf(pub))
        c2 == StripZeros(TagOf(pub) \o keyBlock)
    IN  [hdr  |-> Len(header) + 2 + Len(c1) + 2 + Len(c2),
         body |-> header \o EncodeMPI(c1) \o EncodeMPI(c2)]

serializeEncryptedKeyECDH(header, pub, keyBlock) ==
    LET g == EncodeMPI(<<4>> \o Ephemeral(pub, 4))
        m == EncodeOID(Wrap(pub, keyBlock))
    IN  [hdr |-> Len(header) + Len(g) + Len(m), body |-> header \o g \o m]

\* serializeEncryptedKeyX25519 and serializeEncryptedKeyX448
serializeEncryptedKeyCFRG(header, pub, keyBlock, cipherFunc, version) ==
    LET size == CfrgKeySize(pub.PubKeyAlgo)
        ciphertext == Wrap(pub, keyBlock)
    IN  [hdr  |-> Len(header) + EncodedFieldsLength(size, ciphertext, version = 6),
         body |-> header \o EncodeFields(Ephemeral(pub, size), ciphertext,
                                         cipherFunc, version = 6)]

\* the header length serializeEncryptedKeyKyber adds to the field lengths
KyberHeaderLen(header) == 10

serializeEncryptedKeyKyber(header, pub, keyBlock) ==
    LET ec == Ephemeral(pub, KyberEccLen(pub.PubKeyAlgo))
        k  == Ephemeral(pub, KyberCtLen(pub.PubKeyAlgo))
        m  == EncodeOID(Wrap(pub, keyBlock))
    IN  [hdr  |-> KyberHeaderLen(header) + Len(ec) + Len(k) + Len(m),
         body |-> header \o ec \o k \o m]

\* version := 3; if aeadSupported { version = 6 }
ChooseVersion(aeadSupported) == IF aeadSupported THEN 6 ELSE 3

\* buf[:lenHeaderWritten]: version, then key version and fingerprint (v6) or
\* key id (v3), then the algorithm
PkeskHeader(version, pub) ==
    <<version>>
        \o (IF version = 6 THEN <<pub.Version>> \o pub.Fingerprint ELSE pub.KeyId)
        \o <<pub.PubKeyAlgo>>

\* mutant of SerializeGuard: ElGamal is not refused at version 6
SerializeGuard_NoElGamal(version, pub, cipherFunc) ==
    IF version = 3 /\ pub.PubKeyAlgo \in CfrgAlgos /\ cipherFunc \notin AESCiphers
    THEN "InvalidArgument"
    ELSE "nil"

\* the checks made before anything is written
SerializeGuard(version, pub, cipherFunc) ==
    IF version = 6 /\ pub.PubKeyAlgo = PubKeyAlgoElGamal THEN "InvalidArgument"
    ELSE IF version = 3 /\ pub.PubKeyAlgo \in CfrgAlgos /\ cipherFunc \notin AESCiphers
    THEN "InvalidArgument"
    ELSE "nil"

\* result: err and what was written
SerializeEncryptedKeyAEAD(pub, cipherFunc, aeadSupported, key, primOk) ==
    LET version  == ChooseVersion(aeadSupported)
        guard    == SerializeGuard(version, pub, cipherFunc)
        header   == PkeskHeader(version, pub)
        algo     == pub.PubKeyAlgo
        keyBlock == KeyBlock(algo, version, cipherFunc, key)
        ok(out)  == [err |-> "nil", out |-> out]
        fail(x)  == [err |-> x, out |-> NothingWritten]
    IN  IF guard # "nil" THEN fail(guard)
        ELSE IF algo \in EncryptAlgos /\ ~primOk THEN fail("InvalidArgument")
        ELSE IF algo \in {PubKeyAlgoRSA, PubKeyAlgoRSAEncryptOnly}
             THEN ok(serializeEncryptedKeyRSA(header, pub, keyBlock))
        ELSE IF algo = PubKeyAlgoElGamal
             THEN ok(serializeEncryptedKeyElGamal(header, pub, keyBlock))
        ELSE IF algo = PubKeyAlgoECDH
             THEN ok(serializeEncryptedKeyECDH(header, pub, keyBlock))
        ELSE IF algo \in CfrgAlgos
             THEN ok(serializeEncryptedKeyCFRG(header, pub, keyBlock, cipherFunc, version))
        ELSE IF algo \in KyberAlgos
             THEN ok(serializeEncryptedKeyKyber(header, pub, keyBlock))
        ELSE IF algo \in {PubKeyAlgoDSA, PubKeyAlgoRSASignOnly}
             THEN fail("InvalidArgument")
        ELSE fail("Unsupported")

-----------------------------------------------------------------------------
(* EncryptedKey.parse *)

\* the zero value of the EncryptedKey struct
ZeroEncryptedKey ==
    [Version |-> 0, KeyId |-> Zero8, KeyVersion |-> 0, KeyFingerprint |-> <<>>,
     Algo |-> 0, CipherFunc |-> 0, Key |-> <<>>,
     encryptedMPI1 |-> <<>>, encryptedMPI2 |-> <<>>, encryptedMPI3 |-> <<>>,
     ephemeralPublicX25519 |-> <<>>, ephemeralPublicX448 |-> <<>>,
     encryptedSession |-> <<>>]

\* the packet reader hands parse the body the header declares, or what is
\* there of it
PacketBody(out) == SubSeq(out.body, 1, Min(out.hdr, Len(out.body)))

\* consumeAll: read the reader to its end; end of input is no error
consumeAll(r) == "nil"

\* x25519.DecodeFields / x448.DecodeFields
DecodeFields(r, keySize, v6) ==
    LET eph == ReadFull(r, keySize)
        n   == IF eph.ok THEN ReadFull(eph.rest, 1) ELSE eph
        ct  == IF n.ok THEN ReadFull(n.rest, n.data[1]) ELSE n
        cf  == IF ct.ok /\ ~v6 THEN ReadFull(ct.rest, 1) ELSE ct
    IN  [ok |-> cf.ok,
         ephemeral |-> eph.data,
         ciphertext |-> ct.data,
         cipherFunction |-> IF cf.ok /\ ~v6 THEN cf.data[1] ELSE 0,
         rest |-> cf.rest]

\* readKyberECDHKey
readKyberECDHKey(r, lenEcc, lenKyber) ==
    LET f1 == ReadFull(r, lenEcc)
        f2 == IF f1.ok THEN ReadFull(f1.rest, lenKyber) ELSE f1
        f3 == IF f2.ok THEN ReadOID(f2.rest) ELSE f2
    IN  [ok |-> f3.ok, mpi1 |-> f1.data, mpi2 |-> f2.data, mpi3 |-> f3.data,
         rest |-> f3.rest]

\* key versions a v6 packet may name
ParseKeyVersions == {0, 4, 6}

\* the key id taken from the leading bytes of every fingerprint
IssuerKeyId_Leading(keyVersion, fingerprint) ==
    IF keyVersion \in {4, 6} THEN SubSeq(fingerprint, 1, 8) ELSE Zero8

\* lines 81-85: the key id of a v6 packet comes from the fingerprint
IssuerKeyId(keyVersion, fingerprint) ==
    IF keyVersion = 6 THEN SubSeq(fingerprint, 1, 8)
    ELSE IF keyVersion = 4 THEN SubSeq(fingerprint, 13, 20)
    ELSE Zero8

\* lines 46-87: version, then key version and fingerprint, or key id
ParseIssuer(r) ==
    LET ver == ReadFull(r, 1)
        z   == ZeroEncryptedKey
        bad(x, ek) == [err |-> x, e |-> ek, rest |-> <<>>]
    IN  IF ~ver.ok THEN bad("UnexpectedEOF", z)
        ELSE LET e1 == [z EXCEPT !.Version = ver.data[1]] IN
        IF e1.Version # 3 /\ e1.Version # 6 THEN bad("Unsupported", e1)
        ELSE IF e1.Version = 6
        THEN LET kv == ReadFull(ver.rest, 1) IN
             IF ~kv.ok THEN bad("UnexpectedEOF", e1)
             ELSE LET e2 == [e1 EXCEPT !.KeyVersion = kv.data[1]] IN
             IF e2.KeyVersion \notin ParseKeyVersions THEN bad("Unsupported", e2)
             ELSE LET fp == ReadFull(kv.rest,
                                     IF e2.KeyVersion = 6 THEN 32
                                     ELSE IF e2.KeyVersion = 4 THEN 20 ELSE 0)
                  IN
             IF ~fp.ok THEN bad("UnexpectedEOF", e2)
             ELSE [err |-> "nil",
                   e   |-> [e2 EXCEPT !.KeyFingerprint = fp.data,
                                      !.KeyId = IssuerKeyId(e2.KeyVersion, fp.data)],
                   rest |-> fp.rest]
        ELSE LET id == ReadFull(ver.rest, 8) IN
             IF ~id.ok THEN bad("UnexpectedEOF", e1)
             ELSE [err |-> "nil", e |-> [e1 EXCEPT !.KeyId = id.data], rest |-> id.rest]

\* lines 89-162: the algorithm octet and the algorithm's fields; an
\* algorithm outside the switch reads no field
ParseFields(e0, r) ==
    LET al == ReadFull(r, 1)
        bad(ek) == [err |-> "UnexpectedEOF", e |-> ek, rest |-> <<>>]
        good(ek, rest) == [err |-> "nil", e |-> ek, rest |-> rest]
    IN  IF ~al.ok THEN bad(e0)
        ELSE LET e1 == [e0 EXCEPT !.Algo = al.data[1]]
                 a  == al.data[1]
        IN
        IF a \in {PubKeyAlgoRSA, PubKeyAlgoRSAEncryptOnly}
        THEN LET m1 == ReadMPI(al.rest) IN
             IF ~m1.ok THEN bad(e1)
             ELSE good([e1 EXCEPT !.encryptedMPI1 = m1.data], m1.rest)
        ELSE IF a = PubKeyAlgoElGamal
        THEN LET m1 == ReadMPI(al.rest)
                 m2 == IF m1.ok THEN ReadMPI(m1.rest) ELSE m1
             IN IF ~m2.ok THEN bad([e1 EXCEPT !.encryptedMPI1 = m1.data])
                ELSE good([e1 EXCEPT !.encryptedMPI1 = m1.data,
                                     !.encryptedMPI2 = m2.data], m2.rest)
        ELSE IF a = PubKeyAlgoECDH
        THEN LET m1 == ReadMPI(al.rest)
                 m2 == IF m1.ok THEN ReadOID(m1.rest) ELSE m1
             IN IF ~m2.ok THEN bad([e1 EXCEPT !.encryptedMPI1 = m1.data])
                ELSE good([e1 EXCEPT !.encryptedMPI1 = m1.data,
                                     !.encryptedMPI2 = m2.data], m2.rest)
        ELSE IF a \in CfrgAlgos
        THEN LET d == DecodeFields(al.rest, CfrgKeySize(a), e1.Version = 6) IN
             IF ~d.ok THEN bad(e1)
             ELSE good([e1 EXCEPT
                          !.ephemeralPublicX25519 =
                              IF a = PubKeyAlgoX25519 THEN d.ephemeral ELSE <<>>,
                          !.ephemeralPublicX448 =
                              IF a = PubKeyAlgoX448 THEN d.ephemeral ELSE <<>>,
                          !.encryptedSession = d.ciphertext,
                          !.CipherFunc = IF e1.Version < 6 THEN d.cipherFunction ELSE 0],
                       d.rest)
        ELSE IF a \in KyberAlgos
        THEN LET k == readKyberECDHKey(al.rest, KyberEccLen(a), KyberCtLen(a)) IN
             IF ~k.ok THEN bad([e1 EXCEPT !.encryptedMPI1 = k.mpi1,
                                          !.encryptedMPI2 = k.mpi2])
             ELSE good([e1 EXCEPT !.encryptedMPI1 = k.mpi1,
                                  !.encryptedMPI2 = k.mpi2,
                                  !.encryptedMPI3 = k.mpi3], k.rest)
        ELSE good(e1, al.rest)

\* EncryptedKey.parse: [err, e, rest]; rest is what the fields left unread
parse(r) ==
    LET h == ParseIssuer(r) IN
    IF h.err # "nil" THEN h
    ELSE LET f == ParseFields(h.e, h.rest) IN
         IF f.err # "nil" THEN f
         ELSE [err |-> consumeAll(f.rest), e |-> f.e, rest |-> f.rest]

-----------------------------------------------------------------------------
(* EncryptedKey.Decrypt *)

\* mutant of IssuerCheck: the v6 fingerprint comparison is left out
IssuerCheck_V3Only(ek, pk) ==
    IF ek.Version < 6 /\ ek.KeyId # Zero8 /\ ek.KeyId # pk.KeyId
    THEN "InvalidArgument"
    ELSE "nil"

\* lines 191-196: the issuer named by the packet against the private key
IssuerCheck(ek, pk) ==
    IF ek.Version < 6 /\ ek.KeyId # Zero8 /\ ek.KeyId # pk.KeyId
    THEN "InvalidArgument"
    ELSE IF ek.Version = 6 /\ ek.KeyVersion # 0 /\ ek.KeyFingerprint # pk.Fingerprint
    THEN "InvalidArgument"
    ELSE "nil"

\* lines 191-202: every check made before a primitive is invoked
PreChecks(ek, pk, dummy) ==
    IF IssuerCheck(ek, pk) # "nil" THEN IssuerCheck(ek, pk)
    ELSE IF ek.Algo # pk.PubKeyAlgo THEN "InvalidArgument"
    ELSE IF dummy THEN "DummyKey"
    ELSE "nil"

\* the primitive's decryption of the packet's fields with private key pk
\* (rsa, elgamal.Decrypt, ecdh.Decrypt, x25519/x448.Decrypt, kyber_ecdh.Decrypt)
PrimitiveDecrypt(ek, pk) ==
    LET a == pk.PubKeyAlgo
        opened(c) == IF Len(c) >= 2 /\ SubSeq(c, 1, 2) = TagOf(pk)
                     THEN [err |-> "nil", b |-> Drop(c, 2)]
                     ELSE [err |-> "CryptoError", b |-> <<>>]
        unwrapped(c) == IF Unwrap(pk, c).ok
                        THEN [err |-> "nil", b |-> Unwrap(pk, c).b]
                        ELSE [err |-> "CryptoError", b |-> <<>>]
    IN  IF a \in {PubKeyAlgoRSA, PubKeyAlgoRSAEncryptOnly} THEN opened(ek.encryptedMPI1)
        ELSE IF a = PubKeyAlgoElGamal THEN opened(ek.encryptedMPI2)
        ELSE IF a = PubKeyAlgoECDH THEN unwrapped(ek.encryptedMPI2)
        ELSE IF a \in CfrgAlgos THEN unwrapped(ek.encryptedSession)
        ELSE IF a \in KyberAlgos THEN unwrapped(ek.encryptedMPI3)
        ELSE [err |-> "InvalidArgument", b |-> <<>>]

\* byte strings that differ from b in exactly one byte, by one up or down
SingleByteChanges(b) ==
    {[b EXCEPT ![i] = (b[i] + d) % 256] : i \in 1..Len(b), d \in {1, 255}}

\* what the primitive may hand back for a ciphertext that was altered on the
\* way: the plaintext, the plaintext with one byte changed, or a short string
PrimitiveOutputs(b) ==
    {b} \cup SingleByteChanges(b) \cup {SubSeq(b, 1, n) : n \in 0..Min(2, Len(b))}

\* mutant of decodeChecksumKey: only the low checksum byte is compared
decodeChecksumKey_LowByte(msg) ==
    LET key == SubSeq(msg, 1, Len(msg) - 2) IN
    [key |-> key,
     err |-> IF checksumKeyMaterial(key) % 256 # msg[Len(msg)]
             THEN "Structural" ELSE "nil"]

\* decodeChecksumKey for len(msg) >= 2
decodeChecksumKey(msg) ==
    LET key == SubSeq(msg, 1, Len(msg) - 2)
        expectedChecksum == msg[Len(msg) - 1] * 256 + msg[Len(msg)]
    IN  [key |-> key,
         err |-> IF checksumKeyMaterial(key) # expectedChecksum
                 THEN "Structural" ELSE "nil"]

\* mutant of CfrgCipherCheck: the cipher octet is not looked at
CfrgCipherCheck_None(ek) == "nil"

\* lines 259-266: a v3 X25519/X448 packet must name an AES cipher
CfrgCipherCheck(ek) ==
    IF ek.Version < 6 /\ ek.CipherFunc \notin AESCiphers THEN "Structural" ELSE "nil"

\* lines 246-273: strip the envelope from the primitive's output b.
\* An index or slice out of range is a run-time panic.
StripEnvelope(ek, pk, b) ==
    LET a == pk.PubKeyAlgo IN
    IF a \in ClassicalAlgos
    THEN IF ek.Version < 6 /\ Len(b) < 1 THEN [err |-> "panic", e |-> ek]
         ELSE LET e1 == IF ek.Version < 6 THEN [ek EXCEPT !.CipherFunc = b[1]] ELSE ek
                  keyOffset == IF ek.Version < 6 THEN 1 ELSE 0
                  msg == Drop(b, keyOffset)
              IN  IF ek.Version < 6 /\ ~IsSupported(e1.CipherFunc)
                  THEN [err |-> "Unsupported", e |-> e1]
                  ELSE IF Len(msg) < 2 THEN [err |-> "panic", e |-> e1]
                  ELSE IF decodeChecksumKey(msg).err # "nil"
                  THEN [err |-> decodeChecksumKey(msg).err, e |-> e1]
                  ELSE [err |-> "nil", e |-> [e1 EXCEPT !.Key = decodeChecksumKey(msg).key]]
    ELSE IF a \in CfrgAlgos
    THEN IF CfrgCipherCheck(ek) # "nil"
         THEN [err |-> CfrgCipherCheck(ek), e |-> ek]
         ELSE [err |-> "nil", e |-> [ek EXCEPT !.Key = b]]
    ELSE [err |-> "nil", e |-> [ek EXCEPT !.Key = <<>>]]

NotDecrypted == [err |-> "none", primInvoked |-> FALSE, sent |-> <<>>, b |-> <<>>]

\* EncryptedKey.Decrypt with private key pk; out is what the primitive
\* returned.  Result: the error, the struct, and what the primitive did.
Decrypt(ek, pk, dummy, out) ==
    LET pre == PreChecks(ek, pk, dummy)
        prim == PrimitiveDecrypt(ek, pk)
    IN  IF pre # "nil"
        THEN [e |-> ek, dec |-> [NotDecrypted EXCEPT !.err = pre]]
        ELSE IF prim.err # "nil"
        THEN [e |-> ek,
              dec |-> [err |-> prim.err, primInvoked |-> TRUE, sent |-> <<>>, b |-> <<>>]]
        ELSE LET s == StripEnvelope(ek, pk, out) IN
             [e |-> s.e,
              dec |-> [err |-> s.err, primInvoked |-> TRUE, sent |-> prim.b, b |-> out]]

-----------------------------------------------------------------------------
(* Inputs of the packet pipeline *)

KeyLengths == {16, 24, 32}

SessionKey(len, seed) == [i \in 1..len |-> (seed * 37 + i * 11) % 256]

SessionKeys == {SessionKey(len, seed) : len \in KeyLengths, seed \in 1..MaxSeed}

\* cipher functions a caller may pass: an unsupported one, a supported
\* non-AES one, and two AES ones
Ciphers == {CipherIDEA, CipherCAST5, CipherAES128, CipherAES256}

\* an algorithm octet no case of parse names
UnknownAlgo == CHOOSE a \in 1..255 : a \notin AllAlgos

\* A packet written by another implementation to recipient pub: the layout
\* of the PKESK packet with the peer's choice of version octet, anonymous
\* issuer, algorithm octet and trailing bytes.  The declared length covers
\* all of the body.
ForeignPacket(pub, version, anon, unknownAlgo, cipherFunc, key, trail) ==
    LET algo == pub.PubKeyAlgo
        v6 == version = 6
        keyBlock == KeyBlock(algo, version, cipherFunc, key)
        own == PkeskHeader(version, pub)
        header == <<version>>
                    \o (IF v6
                        THEN (IF anon THEN <<0>> ELSE <<pub.Version>> \o pub.Fingerprint)
                        ELSE (IF anon THEN Zero8 ELSE pub.KeyId))
                    \o <<IF unknownAlgo THEN UnknownAlgo ELSE algo>>
        out == IF algo \in {PubKeyAlgoRSA, PubKeyAlgoRSAEncryptOnly}
               THEN serializeEncryptedKeyRSA(own, pub, keyBlock)
               ELSE IF algo = PubKeyAlgoElGamal
               THEN serializeEncryptedKeyElGamal(own, pub, keyBlock)
               ELSE IF algo = PubKeyAlgoECDH
               THEN serializeEncryptedKeyECDH(own, pub, keyBlock)
               ELSE IF algo \in CfrgAlgos
               THEN serializeEncryptedKeyCFRG(own, pub, keyBlock, cipherFunc, version)
               ELSE IF algo \in KyberAlgos
               THEN serializeEncryptedKeyKyber(own, pub, key)
               ELSE [hdr |-> Len(own), body |-> own]
        body == header \o Drop(out.body, Len(own)) \o Rep(trail, 238)
    IN  [hdr |-> Len(body), body |-> body]

\* the private keys a caller tries on a packet: those of the packet's
\* algorithm and the RSA keys
Keyring(ek) == {k \in Keys : k.PubKeyAlgo \in {ek.Algo, PubKeyAlgoRSA}}

NoCall ==
    [op |-> "none", pub |-> NoKey, cipherFunc |-> 0, aeadSupported |-> FALSE,
     version |-> 0, key |-> <<>>, primOk |-> TRUE, anon |-> FALSE,
     unknownAlgo |-> FALSE, trail |-> 0]

-----------------------------------------------------------------------------
(* The packet pipeline as a state machine *)

\* nothing serialized, parsed or decrypted yet
PipelineIdle ==
    /\ pc = "start"
    /\ call = NoCall
    /\ w = NothingWritten
    /\ serErr = "none"
    /\ e = ZeroEncryptedKey
    /\ parseRes = [err |-> "none", left |-> 0]
    /\ priv = [key |-> NoKey, dummy |-> FALSE]
    /\ dec = NotDecrypted

\* no entity built and no key generated
EntityIdle ==
    /\ config = [algo |-> 0, V5Keys |-> FALSE, curveOk |-> FALSE, bits |-> 0,
                 largeParam |-> FALSE]
    /\ rsaPrimes = <<>>
    /\ entity = [exists |-> FALSE]
    /\ last = [op |-> "none"]

\* generateRSAKeyWithPrimes not called
RSAIdle == rsa = [pc |-> "idle"]

\* no key encoded
ChecksumIdle == ck = [pc |-> "idle"]

InitPKESK ==
    /\ PipelineIdle
    /\ EntityIdle
    /\ RSAIdle
    /\ ChecksumIdle

\* a caller serializes a session key to a public key
Serialize ==
    /\ pc = "start"
    /\ \E pub \in Keys, cipherFunc \in Ciphers, aeadSupported \in BOOLEAN,
          key \in SessionKeys, primOk \in BOOLEAN :
          LET r == SerializeEncryptedKeyAEAD(pub, cipherFunc, aeadSupported, key, primOk) IN
          /\ call' = [NoCall EXCEPT !.op = "serialize", !.pub = pub,
                                    !.cipherFunc = cipherFunc,
                                    !.aeadSupported = aeadSupported,
                                    !.version = ChooseVersion(aeadSupported),
                                    !.key = key, !.primOk = primOk]
          /\ w' = r.out
          /\ serErr' = r.err
    /\ pc' = "written"
    /\ UNCHANGED <<e, parseRes, priv, dec>>
    /\ UNCHANGED entityVars
    /\ UNCHANGED rsaVars
    /\ UNCHANGED checksumVars

\* a packet of another implementation arrives
Receive ==
    /\ pc = "start"
    /\ \E pub \in {k \in Keys : k.num = 1}, version \in {3, 5, 6}, anon \in BOOLEAN,
          unknownAlgo \in BOOLEAN, cipherFunc \in Ciphers, trail \in 0..MaxTrail :
          LET key == SessionKey(16, 1) IN
          /\ ~(version = 6 /\ pub.PubKeyAlgo = PubKeyAlgoElGamal)
          /\ call' = [NoCall EXCEPT !.op = "receive", !.pub = pub,
                                    !.cipherFunc = cipherFunc, !.version = version,
                                    !.key = key, !.anon = anon,
                                    !.unknownAlgo = unknownAlgo, !.trail = trail]
          /\ w' = ForeignPacket(pub, version, anon, unknownAlgo, cipherFunc, key, trail)
    /\ pc' = "written"
    /\ UNCHANGED <<serErr, e, parseRes, priv, dec>>
    /\ UNCHANGED entityVars
    /\ UNCHANGED rsaVars
    /\ UNCHANGED checksumVars

\* the packet reader hands the packet body to parse
Parse ==
    /\ pc = "written"
    /\ w.hdr >= 0
    /\ LET r == parse(PacketBody(w)) IN
          /\ e' = r.e
          /\ parseRes' = [err |-> r.err, left |-> Len(r.rest)]
    /\ pc' = "parsed"
    /\ UNCHANGED <<call, w, serErr, priv, dec>>
    /\ UNCHANGED entityVars
    /\ UNCHANGED rsaVars
    /\ UNCHANGED checksumVars

\* a caller decrypts the parsed packet with a private key
DecryptKey ==
    /\ pc = "parsed"
    /\ parseRes.err = "nil"
    /\ \E pk \in Keyring(e), dummy \in BOOLEAN :
          LET prim == PrimitiveDecrypt(e, pk)
              outs == IF pk.PubKeyAlgo \in ClassicalAlgos /\ ~dummy
                      THEN PrimitiveOutputs(prim.b) ELSE {prim.b}
          IN  \E out \in outs :
                LET r == Decrypt(e, pk, dummy, out) IN
                /\ priv' = [key |-> pk, dummy |-> dummy]
                /\ e' = r.e
                /\ dec' = r.dec
    /\ pc' = "decrypted"
    /\ UNCHANGED <<call, w, serErr, parseRes>>
    /\ UNCHANGED entityVars
    /\ UNCHANGED rsaVars
    /\ UNCHANGED checksumVars

NextPKESK == Serialize \/ Receive \/ Parse \/ DecryptKey

-----------------------------------------------------------------------------
(* Properties of the packet pipeline *)

\* the call under way is a SerializeEncryptedKeyAEAD call
Serializing == call.op = "serialize"

\* Decrypt was given the private half of the recipient key, and the
\* primitive's output was not altered
MatchingKey == priv.key = call.pub /\ ~priv.dummy

Unaltered == dec.primInvoked => dec.b = dec.sent

\* a call of the round-trip property: an encryption algorithm at a version
\* permitted for it, with an AES cipher, and a primitive that encrypts
PermittedCall ==
    /\ Serializing
    /\ call.pub.PubKeyAlgo \in EncryptAlgos
    /\ ~(call.aeadSupported /\ call.pub.PubKeyAlgo = PubKeyAlgoElGamal)
    /\ call.cipherFunc \in AESCiphers
    /\ call.primOk

\* C1 (as claimed): for every supported encryption algorithm (RSA, ElGamal,
\* ECDH, X25519, X448, every Kyber hybrid), every version permitted for it
\* and every session key K of 16, 24 or 32 bytes, serialize, parse and
\* Decrypt with the matching private key all succeed and leave Key = K.
C1_RoundTrip ==
    PermittedCall =>
        /\ pc = "written" => serErr = "nil"
        /\ pc = "parsed" => parseRes.err = "nil"
        /\ (pc = "decrypted" /\ MatchingKey /\ Unaltered)
               => (dec.err = "nil" /\ e.Key = call.key)

\* C2 (as claimed): for every algorithm and version serialize accepts, the
\* body length declared in the packet header equals the number of body
\* bytes written after it.
C2_DeclaredLength ==
    (pc = "written" /\ Serializing /\ serErr = "nil") => w.hdr = Len(w.body)

\* C3 (as claimed): parse fails with a Structural error whenever bytes are
\* left over after the fields of the packet's algorithm (no field at all
\* for an algorithm octet parse does not recognise).
C3_NoTrailingData ==
    (pc = "parsed" /\ parseRes.left > 0) => parseRes.err = "Structural"

\* C4 (as claimed): every v6 packet serialize writes carries a key version
\* octet in {0, 4, 6} followed by a fingerprint of 0, 20 or 32 bytes
\* respectively, so parse accepts its header.
C4_KeyVersionOctet ==
    (pc = "written" /\ Serializing /\ serErr = "nil" /\ call.aeadSupported) =>
        /\ w.body[2] \in {0, 4, 6}
        /\ Len(call.pub.Fingerprint)
              = (IF w.body[2] = 6 THEN 32 ELSE IF w.body[2] = 4 THEN 20 ELSE 0)
        /\ ParseIssuer(w.body).err = "nil"

\* C5: Decrypt checks the issuer before it invokes any primitive.  A v3
\* packet whose key id is neither 0 nor the private key's, and a v6 packet
\* whose key version is not 0 and whose fingerprint is not the private
\* key's, fail with InvalidArgument and no primitive is invoked; a v3 packet
\* with key id 0 and a v6 packet with key version 0 pass the issuer check
\* for any private key (an algorithm match with a real key reaches the
\* primitive).
C5_IssuerChecked ==
    pc = "decrypted" =>
        /\ (e.Version = 3 /\ e.KeyId # Zero8 /\ e.KeyId # priv.key.KeyId)
              => (dec.err = "InvalidArgument" /\ ~dec.primInvoked)
        /\ (e.Version = 6 /\ e.KeyVersion # 0 /\ e.KeyFingerprint # priv.key.Fingerprint)
              => (dec.err = "InvalidArgument" /\ ~dec.primInvoked)
        /\ (/\ \/ e.Version = 3 /\ e.KeyId = Zero8
               \/ e.Version = 6 /\ e.KeyVersion = 0
            /\ e.Algo = priv.key.PubKeyAlgo
            /\ ~priv.dummy)
              => dec.primInvoked

\* C5 witness: a v6 packet naming another key's fingerprint was refused,
\* and an anonymous packet reached the primitive of a key it was not for
C5_Witness ==
    /\ pc = "decrypted"
    /\ e.Version = 6 /\ e.KeyVersion = 0
    /\ priv.key # call.pub
    /\ dec.primInvoked
    /\ dec.err = "CryptoError"

\* the primitive returned the sender's key block (of a supported cipher)
\* with exactly one byte changed (classical and ECDH payloads)
OneByteChanged ==
    /\ pc = "decrypted"
    /\ priv.key.PubKeyAlgo \in ClassicalAlgos
    /\ dec.primInvoked
    /\ dec.sent = KeyBlock(e.Algo, e.Version, call.cipherFunc, call.key)
    /\ e.Version = 3 => IsSupported(dec.sent[1])
    /\ Len(dec.b) = Len(dec.sent)
    /\ dec.b # dec.sent

\* C6 (as claimed): corrupting any single byte of the key block
\* ([cipher octet in v3] ++ key ++ checksum) makes Decrypt fail with
\* Structural.
C6_AnyByteDetected == OneByteChanged => dec.err = "Structural"

\* C6 (amended): corrupting any single byte of key ++ checksum makes
\* Decrypt fail with Structural and sets no key; the v3 cipher octet is
\* outside the checksum: changing it yields Unsupported when the new octet
\* is no supported cipher, and otherwise the unchanged key under the new
\* cipher.
C6_KeyOrChecksumByteDetected ==
    OneByteChanged =>
        IF e.Version = 3 /\ dec.b[1] # dec.sent[1]
        THEN IF IsSupported(dec.b[1])
             THEN dec.err = "nil" /\ e.Key = call.key /\ e.CipherFunc = dec.b[1]
             ELSE dec.err = "Unsupported" /\ e.Key = <<>>
        ELSE dec.err = "Structural" /\ e.Key = <<>>

\* C6 witness: a changed key byte of a v3 packet was refused
C6_Witness ==
    /\ OneByteChanged
    /\ e.Version = 3
    /\ dec.b[1] = dec.sent[1]
    /\ dec.b[2] # dec.sent[2]
    /\ dec.err = "Structural"

\* C7: serializing a v3 packet to an X25519 or X448 key with a non-AES
\* cipher fails with InvalidArgument and writes nothing; decrypting a parsed
\* v3 X25519/X448 packet whose cipher octet is not AES never yields a key,
\* and fails with Structural once the issuer, algorithm and primitive have
\* accepted the private key; at v6 any cipher is serialized and decrypted.
C7_CfrgAesOnly ==
    /\ (/\ pc = "written" /\ Serializing
        /\ call.pub.PubKeyAlgo \in CfrgAlgos
        /\ call.cipherFunc \notin AESCiphers)
          => IF call.aeadSupported
             THEN call.primOk => (serErr = "nil" /\ w.hdr > 0)
             ELSE serErr = "InvalidArgument" /\ w = NothingWritten
    /\ (/\ pc = "decrypted"
        /\ e.Algo \in CfrgAlgos
        /\ call.cipherFunc \notin AESCiphers)
          => IF e.Version = 3
             THEN /\ e.CipherFunc \notin AESCiphers
                  /\ dec.err # "nil"
                  /\ e.Key = <<>>
                  /\ MatchingKey => dec.err = "Structural"
             ELSE MatchingKey => (dec.err = "nil" /\ e.Key = call.key)

\* C7 witness: a v3 X25519 packet naming CAST5 was refused by its own key
C7_Witness ==
    /\ pc = "decrypted"
    /\ e.Version = 3
    /\ e.Algo = PubKeyAlgoX25519
    /\ e.CipherFunc = CipherCAST5
    /\ MatchingKey
    /\ dec.err = "Structural"

C19_DecryptNeverFaults ==
    (pc = "decrypted" /\ priv.key.PubKeyAlgo \in ClassicalAlgos /\ dec.primInvoked)
        => dec.err # "panic"

\* the octets of the packet body from offset a to offset b inclusive
BodyOctets(a, b) == SubSeq(PacketBody(w), a + 1, b + 1)

\* C16: parse accepts only packet version 3 or 6 and, at version 6, only key
\* version 0, 4 or 6, anything else being Unsupported; the key id is the
\* 8-byte field at version 3, fingerprint[0:8] for key version 6,
\* fingerprint[12:20] for key version 4, and zero with an empty fingerprint
\* for key version 0.
C16_ParseIssuer ==
    pc = "parsed" =>
        /\ parseRes.err = "nil" => e.Version \in {3, 6}
        /\ (Len(PacketBody(w)) >= 1 /\ PacketBody(w)[1] \notin {3, 6})
              => parseRes.err = "Unsupported"
        /\ (Len(PacketBody(w)) >= 2 /\ PacketBody(w)[1] = 6
                /\ PacketBody(w)[2] \notin {0, 4, 6})
              => parseRes.err = "Unsupported"
        /\ (parseRes.err = "nil" /\ e.Version = 3) => e.KeyId = BodyOctets(1, 8)
        /\ (parseRes.err = "nil" /\ e.Version = 6) =>
              /\ e.KeyVersion = PacketBody(w)[2]
              /\ e.KeyVersion \in {0, 4, 6}
              /\ e.KeyVersion = 6 =>
                    /\ e.KeyFingerprint = BodyOctets(2, 33)
                    /\ e.KeyId = SubSeq(e.KeyFingerprint, 1, 8)
              /\ e.KeyVersion = 4 =>
                    /\ e.KeyFingerprint = BodyOctets(2, 21)
                    /\ e.KeyId = SubSeq(e.KeyFingerprint, 13, 20)
              /\ e.KeyVersion = 0 =>
                    /\ e.KeyFingerprint = <<>>
                    /\ e.KeyId = Zero8

\* C16 witness: a v6 packet naming a V4 key was parsed, and the key id is
\* not the head of the fingerprint
C16_Witness ==
    /\ pc = "parsed"
    /\ parseRes.err = "nil"
    /\ e.Version = 6
    /\ e.KeyVersion = 4
    /\ Len(e.KeyFingerprint) = 20
    /\ e.KeyId = SubSeq(e.KeyFingerprint, 13, 20)
    /\ e.KeyId # SubSeq(e.KeyFingerprint, 1, 8)

-----------------------------------------------------------------------------
(* generateRSAKeyWithPrimes                                                 *)
(*                                                                          *)
(* The arithmetic of the loop is explored on small numbers: a call with     *)
(* `bits` works on primes and a modulus of ScaledBits(bits) bits.  The two  *)
(* guards in front of the loop compare the unscaled arguments.              *)

\* priv.E
RSAPublicExponent == 65537

\* the smallest RSA modulus newSigner, newDecrypter and
\* generateRSAKeyWithPrimes accept
MinRSABits == 1024

\* the bit length the model works with for a call with the given bits
ScaledBits(bits) == bits \div 128

\* big.Int.BitLen
RECURSIVE BitLen(_)
BitLen(n) == IF n <= 0 THEN 0 ELSE 1 + BitLen(n \div 2)

RECURSIVE NoDivisorFrom(_, _)
NoDivisorFrom(p, d) == IF d * d > p THEN TRUE ELSE p % d # 0 /\ NoDivisorFrom(p, d + 1)

IsPrime(p) == p >= 2 /\ NoDivisorFrom(p, 2)

RECURSIVE Pow2(_)
Pow2(k) == IF k <= 0 THEN 1 ELSE 2 * Pow2(k - 1)

\* rand.Prime(random, b): a prime of exactly b bits with the top two bits set
RandPrimes(b) == {p \in (3 * Pow2(b - 2))..(Pow2(b) - 1) : IsPrime(p)}

\* n.Mul(n, prime) over the primes
RECURSIVE Product(_)
Product(ps) == IF ps = <<>> THEN 1 ELSE Head(ps) * Product(Tail(ps))

\* totient.Mul(totient, prime - 1) over the primes
RECURSIVE Totient(_)
Totient(ps) == IF ps = <<>> THEN 1 ELSE (Head(ps) - 1) * Totient(Tail(ps))

\* a check that lets equal primes through
PairwiseUnequal_Skipped(ps) == TRUE

\* "Make sure that primes is pairwise unequal."
PairwiseUnequal(ps) == \A i \in 1..Len(ps) : \A j \in 1..(i - 1) : ps[i] # ps[j]

\* n.BitLen() == bits
BitLenMatches(n, bits) == BitLen(n) = bits

\* a * b mod m without a product above 3 * m
RECURSIVE MulMod(_, _, _)
MulMod(a, b, m) ==
    IF b = 0 THEN 0
    ELSE (2 * MulMod(a, b \div 2, m) + (b % 2) * (a % m)) % m

\* extended Euclid: <<g, x, y>> with a * x + b * y = g
RECURSIVE Egcd(_, _)
Egcd(a, b) ==
    IF b = 0 THEN <<a, 1, 0>>
    ELSE CHOOSE t \in {<<r[1], r[3], r[2] - q * r[3]>> :
                           r \in {Egcd(b, a % b)}, q \in {a \div b}} : TRUE

\* big.Int.ModInverse(e, totient): the inverse in 1..totient-1, or -1 (nil)
\* when e and totient are not coprime
ModInverse(g, n) ==
    LET r == Egcd(g % n, n) IN IF r[1] # 1 THEN -1 ELSE r[2] % n

NoRSAKey == [N |-> 0, E |-> 0, D |-> 0, Primes |-> <<>>]

\* todo := bits; if nprimes >= 7 { todo += (nprimes - 2) / 5 }
InitialTodo(nprimes, bits) ==
    bits + (IF nprimes >= 7 THEN (nprimes - 2) \div 5 ELSE 0)

\* the loop filling primes[i], i = 1..nprimes: the set of its outcomes
\* [err, primes, prepopulatedPrimes]; randOk says whether the random source
\* delivers
RECURSIVE FillPrimes(_, _, _, _, _, _)
FillPrimes(i, nprimes, todo, prepopulatedPrimes, primes, randOk) ==
    IF i > nprimes
    THEN {[err |-> "nil", primes |-> primes, prepopulatedPrimes |-> prepopulatedPrimes]}
    ELSE IF Len(prepopulatedPrimes) = 0
    THEN LET b == todo \div (nprimes - (i - 1)) IN
         IF ~randOk \/ b < 2
         THEN {[err |-> "CryptoError", primes |-> primes,
                prepopulatedPrimes |-> prepopulatedPrimes]}
         ELSE UNION {FillPrimes(i + 1, nprimes, todo - BitLen(q), prepopulatedPrimes,
                                [primes EXCEPT ![i] = q], randOk) : q \in RandPrimes(b)}
    ELSE LET q == Head(prepopulatedPrimes) IN
         FillPrimes(i + 1, nprimes, todo - BitLen(q), Tail(prepopulatedPrimes),
                    [primes EXCEPT ![i] = q], randOk)

\* what follows the filling in one pass of the loop: "key", or "restart"
\* (continue NextSetOfPrimes)
PassOutcome(primes, bits) ==
    IF ~PairwiseUnequal(primes) THEN "restart"
    ELSE IF ~BitLenMatches(Product(primes), bits) THEN "restart"
    ELSE IF ModInverse(RSAPublicExponent, Totient(primes)) = -1 THEN "restart"
    ELSE "key"

\* the key a pass returns
KeyOf(primes) ==
    [N |-> Product(primes), E |-> RSAPublicExponent,
     D |-> ModInverse(RSAPublicExponent, Totient(primes)), Primes |-> primes]

-----------------------------------------------------------------------------
(* Key generation: newSigner, newDecrypter *)

DilithiumEcdsaAlgos ==
    {PubKeyAlgoDilithium3p256, PubKeyAlgoDilithium5p384,
     PubKeyAlgoDilithium3Brainpool256, PubKeyAlgoDilithium5Brainpool384}

DilithiumEddsaAlgos == {PubKeyAlgoDilithium3Ed25519, PubKeyAlgoDilithium5Ed448}

DilithiumAlgos == DilithiumEcdsaAlgos \cup DilithiumEddsaAlgos

SphincsPlusAlgos == {PubKeyAlgoSphincsPlusSha2, PubKeyAlgoSphincsPlusShake}

\* no key material: what a failed generation returns
NoMaterial == [algo |-> 0, curve |-> "", kdf |-> "", primes |-> <<>>]

Material(algo) == [NoMaterial EXCEPT !.algo = algo]

\* packet.GetMatchingKyberKem: the Kyber hybrid sharing the ECC component;
\* for SPHINCS+ the choice follows the size of the parameter set
GetMatchingKyberKem(algo, largeParam) ==
    CASE algo = PubKeyAlgoDilithium3Ed25519 -> PubKeyAlgoKyber768X25519
      [] algo = PubKeyAlgoDilithium5Ed448 -> PubKeyAlgoKyber1024X448
      [] algo = PubKeyAlgoDilithium3p256 -> PubKeyAlgoKyber768P256
      [] algo = PubKeyAlgoDilithium5p384 -> PubKeyAlgoKyber1024P384
      [] algo = PubKeyAlgoDilithium3Brainpool256 -> PubKeyAlgoKyber768Brainpool256
      [] algo = PubKeyAlgoDilithium5Brainpool384 -> PubKeyAlgoKyber1024Brainpool384
      [] algo \in SphincsPlusAlgos ->
            IF largeParam THEN PubKeyAlgoKyber1024X448 ELSE PubKeyAlgoKyber768X25519

\* the error newSigner and newDecrypter return for a PQ algorithm without
\* V5 keys: goerrors.New(...), an error of no kind of the errors package
NonV5Error == "PlainError"

\* generateRSAKeyWithPrimes(config.Random(), 2, bits, primes) run to its
\* return: [err, key].  The first pass of the loop takes the two prepared
\* primes and returns the key made of them if it accepts them; otherwise it
\* drops them and the later passes draw from the random source, whose primes
\* the key does not name (key.primes = <<>>).  A call that never returns
\* yields no result.
generateRSAKeyWithPrimes(bits, primes, genOk) ==
    IF PassOutcome(primes, ScaledBits(bits)) = "key"
    THEN [err |-> "nil", key |-> [Material(PubKeyAlgoRSA) EXCEPT !.primes = primes]]
    ELSE IF genOk
    THEN [err |-> "nil", key |-> Material(PubKeyAlgoRSA)]
    ELSE [err |-> "CryptoError", key |-> NoMaterial]

\* a list that keeps the primes handed out
RemainingPrimes_Kept(primes) == primes

\* config.RSAPrimes = config.RSAPrimes[2:]
RemainingPrimes(primes) == SubSeq(primes, 3, Len(primes))

\* the RSA branch of newSigner and newDecrypter: [err, key, primes left]
RSABranch(cfg, primes, genOk) ==
    IF cfg.bits < MinRSABits
    THEN [err |-> "InvalidArgument", key |-> NoMaterial, primes |-> primes]
    ELSE IF Len(primes) >= 2
    THEN [err |-> generateRSAKeyWithPrimes(cfg.bits, SubSeq(primes, 1, 2), genOk).err,
          key |-> generateRSAKeyWithPrimes(cfg.bits, SubSeq(primes, 1, 2), genOk).key,
          primes |-> RemainingPrimes(primes)]
    ELSE IF genOk
    THEN [err |-> "nil", key |-> Material(PubKeyAlgoRSA), primes |-> primes]
    ELSE [err |-> "CryptoError", key |-> NoMaterial, primes |-> primes]

\* newSigner: [err, key, primes]; genOk says whether the primitive's
\* GenerateKey succeeds
newSigner(cfg, primes, genOk) ==
    LET a == cfg.algo
        fail(x) == [err |-> x, key |-> NoMaterial, primes |-> primes]
        made(k) == IF genOk THEN [err |-> "nil", key |-> k, primes |-> primes]
                   ELSE fail("CryptoError")
    IN  IF a = PubKeyAlgoRSA THEN RSABranch(cfg, primes, genOk)
        ELSE IF a \in {PubKeyAlgoEdDSA, PubKeyAlgoECDSA}
        THEN IF ~cfg.curveOk THEN fail("InvalidArgument")
             ELSE made([Material(a) EXCEPT !.curve = "config"])
        ELSE IF a \in DilithiumAlgos \cup SphincsPlusAlgos
        THEN IF ~cfg.V5Keys THEN fail(NonV5Error) ELSE made(Material(a))
        ELSE fail("InvalidArgument")

\* a decrypter made the way a signer is
newDecrypter_SignerKey(cfg, primes, genOk) == newSigner(cfg, primes, genOk)

\* newDecrypter: [err, key, primes]
newDecrypter(cfg, primes, genOk) ==
    LET a == cfg.algo
        fail(x) == [err |-> x, key |-> NoMaterial, primes |-> primes]
        made(k) == IF genOk THEN [err |-> "nil", key |-> k, primes |-> primes]
                   ELSE fail("CryptoError")
        kem == IF a \in DilithiumAlgos \cup SphincsPlusAlgos
               THEN GetMatchingKyberKem(a, cfg.largeParam) ELSE a
    IN  IF a = PubKeyAlgoRSA THEN RSABranch(cfg, primes, genOk)
        ELSE IF a \in {PubKeyAlgoEdDSA, PubKeyAlgoECDSA, PubKeyAlgoECDH}
        THEN IF ~cfg.curveOk THEN fail("InvalidArgument")
             ELSE made([Material(PubKeyAlgoECDH) EXCEPT !.curve = "config",
                                                        !.kdf = "SHA512/AES256"])
        ELSE IF a \in DilithiumAlgos \cup SphincsPlusAlgos \cup KyberAlgos
        THEN IF ~cfg.V5Keys THEN fail(NonV5Error) ELSE made(Material(kem))
        ELSE fail("InvalidArgument")

-----------------------------------------------------------------------------
(* Entity building: NewEntity, addUserId, AddSigningSubkey,                 *)
(* addEncryptionSubkey                                                      *)

\* maximum number of subkeys of an entity
MaxSubkeys == 2

\* signature types
SigTypePositiveCert == 19
SigTypeSubkeyBinding == 24
SigTypePrimaryKeyBinding == 25

\* the name the model gives a key: 0 is the primary, i the i-th subkey
PrimaryName == 0

NoSignature ==
    [SigType |-> 0, FlagsValid |-> FALSE, FlagSign |-> FALSE, FlagCertify |-> FALSE,
     FlagEncryptStorage |-> FALSE, FlagEncryptCommunications |-> FALSE,
     IsPrimaryId |-> FALSE, PreferredHash |-> <<>>, PreferredSymmetric |-> <<>>,
     PreferredCompression |-> <<>>, PreferredAEAD |-> <<>>,
     signed |-> FALSE, signer |-> -1, hashKey |-> -1, pub |-> -1, step |-> 0]

\* Signature.SignUserId, Signature.SignKey, Signature.CrossSignKey: the
\* signature sig made with the private key named signer over hashKey and
\* pub, as the step-th signing call of the handler
Signed(sig, signer, hashKey, pub, step) ==
    [sig EXCEPT !.signed = TRUE, !.signer = signer, !.hashKey = hashKey,
                !.pub = pub, !.step = step]

NoEntity == [exists |-> FALSE, primary |-> NoMaterial, version |-> 0,
             identities |-> <<>>, subkeys |-> <<>>]

\* packet.NewUserId: nil when a field holds one of ( ) < > or NUL
UserIdInputs ==
    {[id |-> "Alice <alice@example.org>", valid |-> TRUE],
     [id |-> "Bob <bob@example.org>", valid |-> TRUE],
     [id |-> "Carol <carol@example.org>", valid |-> TRUE],
     [id |-> "Al(ice", valid |-> FALSE]}

\* key version of a generated key: UpgradeToV5 when config.V5Keys
KeyVersionOf(cfg) == IF cfg.V5Keys THEN 5 ELSE 4

\* crypto.Hash values
CryptoSHA256 == 5
CryptoSHA384 == 6
CryptoSHA512 == 7

\* OpenPGP hash algorithm ids
HashIdSHA256 == 8
HashIdSHA384 == 9
HashIdSHA512 == 10

\* hashToHashId: the OpenPGP id of a crypto.Hash
hashToHashId(h) ==
    IF h = CryptoSHA256 THEN HashIdSHA256
    ELSE IF h = CryptoSHA384 THEN HashIdSHA384
    ELSE HashIdSHA512

\* compression algorithm ids
CompressionNone == 0
CompressionZIP == 1
CompressionZLIB == 2

\* AEAD mode ids
AEADModeEAX == 1
AEADModeOCB == 2
AEADModeGCM == 3

\* lines 109-112: the configured hash, then SHA-256 if it is another
PreferredHash(cfg) ==
    <<hashToHashId(cfg.Hash)>>
        \o (IF cfg.Hash # CryptoSHA256 THEN <<hashToHashId(CryptoSHA256)>> ELSE <<>>)

\* AES-128 appended whatever the configured cipher
PreferredSymmetric_AlwaysAppended(cfg) == <<cfg.Cipher, CipherAES128>>

\* lines 115-118: the configured cipher, then AES-128 if it is another
PreferredSymmetric(cfg) ==
    <<cfg.Cipher>> \o (IF cfg.Cipher # CipherAES128 THEN <<CipherAES128>> ELSE <<>>)

\* lines 124-127: no compression first, then the configured one if any
PreferredCompression(cfg) ==
    <<CompressionNone>>
        \o (IF cfg.Compression # CompressionNone THEN <<cfg.Compression>> ELSE <<>>)

\* lines 130-133: the configured mode, then EAX if it is another
PreferredAEAD(cfg) ==
    <<cfg.AEADMode>> \o (IF cfg.AEADMode # AEADModeEAX THEN <<AEADModeEAX>> ELSE <<>>)

\* a lookup that never finds the id
UserIdExists_Never(t, uid) == FALSE

\* _, ok := t.Identities[uid.Id]
UserIdExists(t, uid) == uid.id \in DOMAIN t.identities

\* every identity marked primary
isPrimaryId_Always(t) == TRUE

\* isPrimaryId := len(t.Identities) == 0
isPrimaryId(t) == DOMAIN t.identities = {}

\* an addUserId that enters the identity before SignUserId has signed it
addUserId_InsertedUnsigned(t, uid, cfg, signOk) ==
    IF ~uid.valid \/ UserIdExists(t, uid)
    THEN [err |-> "InvalidArgument", entity |-> t, signCalls |-> 0]
    ELSE [err |-> IF signOk THEN "nil" ELSE "CryptoError", signCalls |-> 1,
          entity |-> [t EXCEPT !.identities =
              (uid.id :> [Name |-> uid.id,
                          SelfSignature |->
                              IF signOk
                              THEN Signed([NoSignature EXCEPT
                                               !.SigType = SigTypePositiveCert,
                                               !.IsPrimaryId = (DOMAIN t.identities = {}),
                                               !.FlagsValid = TRUE, !.FlagSign = TRUE,
                                               !.FlagCertify = TRUE,
                                               !.PreferredHash = PreferredHash(cfg),
                                               !.PreferredSymmetric = PreferredSymmetric(cfg),
                                               !.PreferredCompression = PreferredCompression(cfg),
                                               !.PreferredAEAD = PreferredAEAD(cfg)],
                                          PrimaryName, PrimaryName, PrimaryName, 1)
                              ELSE NoSignature])
              @@ t.identities]]

\* addUserId on entity t: [err, entity, signCalls]; signCalls counts the
\* signing calls the handler made
addUserId(t, uid, cfg, signOk) ==
    IF ~uid.valid THEN [err |-> "InvalidArgument", entity |-> t, signCalls |-> 0]
    ELSE IF UserIdExists(t, uid)
    THEN [err |-> "InvalidArgument", entity |-> t, signCalls |-> 0]
    ELSE LET selfSignature ==
                 [NoSignature EXCEPT !.SigType = SigTypePositiveCert,
                                     !.IsPrimaryId = isPrimaryId(t),
                                     !.FlagsValid = TRUE, !.FlagSign = TRUE,
                                     !.FlagCertify = TRUE,
                                     !.PreferredHash = PreferredHash(cfg),
                                     !.PreferredSymmetric = PreferredSymmetric(cfg),
                                     !.PreferredCompression = PreferredCompression(cfg),
                                     !.PreferredAEAD = PreferredAEAD(cfg)]
         IN  IF ~signOk THEN [err |-> "CryptoError", entity |-> t, signCalls |-> 1]
             ELSE [err |-> "nil", signCalls |-> 1,
                   entity |-> [t EXCEPT !.identities =
                       (uid.id :> [Name |-> uid.id,
                                   SelfSignature |->
                                       Signed(selfSignature, PrimaryName, PrimaryName,
                                              PrimaryName, 1)])
                       @@ t.identities]]

\* a binding the primary key signs in the subkey's place
CrossSignKey_ByPrimary(sig, subName) == Signed(sig, PrimaryName, PrimaryName, subName, 1)

\* the cross-signature of AddSigningSubkey: made with the subkey's private
\* key, over the primary key (hashKey) and the subkey (pub)
CrossSignKey(sig, subName) == Signed(sig, subName, PrimaryName, subName, 1)

\* AddSigningSubkey on entity t: [err, entity, primes, signCalls]
AddSigningSubkey(t, cfg, primes, genOk, crossOk, bindOk) ==
    LET g == newSigner(cfg, primes, genOk)
        name == Len(t.subkeys) + 1
        embedded == [NoSignature EXCEPT !.SigType = SigTypePrimaryKeyBinding]
        sig == [NoSignature EXCEPT !.SigType = SigTypeSubkeyBinding,
                                   !.FlagsValid = TRUE, !.FlagSign = TRUE]
        subkey == [key |-> g.key, version |-> KeyVersionOf(cfg), name |-> name,
                   Sig |-> Signed(sig, PrimaryName, PrimaryName, name, 2),
                   EmbeddedSignature |-> CrossSignKey(embedded, name)]
    IN  IF g.err # "nil"
        THEN [err |-> g.err, entity |-> t, primes |-> g.primes, signCalls |-> 0]
        ELSE IF ~crossOk
        THEN [err |-> "CryptoError", entity |-> t, primes |-> g.primes, signCalls |-> 1]
        ELSE IF ~bindOk
        THEN [err |-> "CryptoError", entity |-> t, primes |-> g.primes, signCalls |-> 2]
        ELSE [err |-> "nil", signCalls |-> 2,
              entity |-> [t EXCEPT !.subkeys = Append(t.subkeys, subkey)],
              primes |-> g.primes]

\* addEncryptionSubkey on entity t: [err, entity, primes, signCalls]
addEncryptionSubkey(t, cfg, primes, genOk, bindOk) ==
    LET g == newDecrypter(cfg, primes, genOk)
        name == Len(t.subkeys) + 1
        sig == [NoSignature EXCEPT !.SigType = SigTypeSubkeyBinding,
                                   !.FlagsValid = TRUE,
                                   !.FlagEncryptStorage = TRUE,
                                   !.FlagEncryptCommunications = TRUE]
        subkey == [key |-> g.key, version |-> KeyVersionOf(cfg), name |-> name,
                   Sig |-> Signed(sig, PrimaryName, PrimaryName, name, 1),
                   EmbeddedSignature |-> NoSignature]
    IN  IF g.err # "nil"
        THEN [err |-> g.err, entity |-> t, primes |-> g.primes, signCalls |-> 0]
        ELSE IF ~bindOk
        THEN [err |-> "CryptoError", entity |-> t, primes |-> g.primes, signCalls |-> 1]
        ELSE [err |-> "nil", signCalls |-> 1,
              entity |-> [t EXCEPT !.subkeys = Append(t.subkeys, subkey)],
              primes |-> g.primes]

\* NewEntity: [err, entity, primes, signCalls]; no entity is returned on an error
NewEntity(uid, cfg, primes, genOk, signOk, subGenOk, bindOk) ==
    LET g == newSigner(cfg, primes, genOk)
        t0 == [NoEntity EXCEPT !.exists = TRUE, !.primary = g.key,
                               !.version = KeyVersionOf(cfg)]
        u == addUserId(t0, uid, cfg, signOk)
        k == addEncryptionSubkey(u.entity, cfg, g.primes, subGenOk, bindOk)
        none(x, pr, n) == [err |-> x, entity |-> NoEntity, primes |-> pr, signCalls |-> n]
    IN  IF g.err # "nil" THEN none(g.err, g.primes, 0)
        ELSE IF u.err # "nil" THEN none(u.err, g.primes, u.signCalls)
        ELSE IF k.err # "nil" THEN none(k.err, k.primes, u.signCalls + k.signCalls)
        ELSE [k EXCEPT !.signCalls = u.signCalls + k.signCalls]

-----------------------------------------------------------------------------
(* Key generation and entity building as a state machine *)

\* a configuration with the defaults of config.Hash(), config.Cipher(),
\* config.Compression() and config.AEAD().Mode()
Config(algo, v5, curveOk, bits, largeParam) ==
    [algo |-> algo, V5Keys |-> v5, curveOk |-> curveOk, bits |-> bits,
     largeParam |-> largeParam, Hash |-> CryptoSHA256, Cipher |-> CipherAES128,
     Compression |-> CompressionNone, AEADMode |-> AEADModeOCB]

NoConfig == Config(0, FALSE, FALSE, 0, FALSE)

\* the configurations a caller passes: every algorithm of the two switches
\* and three (DSA, ElGamal, X25519) of neither; the curve name, the modulus size and the
\* SPHINCS+ parameter vary where the algorithm reads them
KeyConfigs ==
    {Config(PubKeyAlgoRSA, v, TRUE, b, FALSE) :
        v \in BOOLEAN, b \in {MinRSABits - 1, 2 * MinRSABits}}
    \cup {Config(a, v, c, 2 * MinRSABits, FALSE) :
        a \in {PubKeyAlgoEdDSA, PubKeyAlgoECDSA, PubKeyAlgoECDH},
        v \in BOOLEAN, c \in BOOLEAN}
    \cup {Config(a, v, TRUE, 2 * MinRSABits, FALSE) :
        a \in DilithiumAlgos \cup KyberAlgos
              \cup {PubKeyAlgoDSA, PubKeyAlgoElGamal, PubKeyAlgoX25519},
        v \in BOOLEAN}
    \cup {Config(a, v, TRUE, 2 * MinRSABits, l) :
        a \in SphincsPlusAlgos, v \in BOOLEAN, l \in BOOLEAN}

\* what config.Hash(), config.Cipher(), config.Compression() and
\* config.AEAD().Mode() return: each the must-implement value and another
Preferences ==
    {[Hash |-> CryptoSHA256, Cipher |-> CipherAES128,
      Compression |-> CompressionNone, AEADMode |-> AEADModeEAX],
     [Hash |-> CryptoSHA512, Cipher |-> CipherAES256,
      Compression |-> CompressionZLIB, AEADMode |-> AEADModeOCB],
     [Hash |-> CryptoSHA256, Cipher |-> CipherAES256,
      Compression |-> CompressionZIP, AEADMode |-> AEADModeGCM],
     [Hash |-> CryptoSHA384, Cipher |-> CipherAES128,
      Compression |-> CompressionNone, AEADMode |-> AEADModeOCB]}

Configs ==
    {[c EXCEPT !.Hash = p.Hash, !.Cipher = p.Cipher,
               !.Compression = p.Compression, !.AEADMode = p.AEADMode] :
        c \in KeyConfigs, p \in Preferences}

\* config.RSAPrimes: primes the caller generated beforehand
\* none; one; two and four that fit the modulus; a first pair of equal
\* primes; a first pair too short for the modulus; five
PrimePools ==
    {<<>>, <<241>>, <<241, 251>>, <<241, 251, 239, 233>>, <<241, 241, 251, 239>>,
     <<11, 13, 241, 251>>, <<193, 197, 199, 211, 223>>}

\* no user id passed
NoUserId == [id |-> "", valid |-> FALSE]

NoResult == [op |-> "none", err |-> "none", key |-> NoMaterial, uid |-> NoUserId,
             signCalls |-> 0]

\* what a call leaves in last
Result(op, err, key, uid, signCalls) ==
    [op |-> op, err |-> err, key |-> key, uid |-> uid, signCalls |-> signCalls]

InitEntity ==
    /\ PipelineIdle
    /\ RSAIdle
    /\ ChecksumIdle
    /\ config \in Configs
    /\ rsaPrimes \in (IF config.algo = PubKeyAlgoRSA THEN PrimePools ELSE {<<>>})
    /\ entity = NoEntity
    /\ last = NoResult

NewSignerCall ==
    /\ \E genOk \in BOOLEAN :
          LET r == newSigner(config, rsaPrimes, genOk) IN
          /\ last' = Result("newSigner", r.err, r.key, NoUserId, 0)
          /\ rsaPrimes' = r.primes
    /\ UNCHANGED <<config, entity>>
    /\ UNCHANGED pkeskVars
    /\ UNCHANGED rsaVars
    /\ UNCHANGED checksumVars

NewDecrypterCall ==
    /\ \E genOk \in BOOLEAN :
          LET r == newDecrypter(config, rsaPrimes, genOk) IN
          /\ last' = Result("newDecrypter", r.err, r.key, NoUserId, 0)
          /\ rsaPrimes' = r.primes
    /\ UNCHANGED <<config, entity>>
    /\ UNCHANGED pkeskVars
    /\ UNCHANGED rsaVars
    /\ UNCHANGED checksumVars

NewEntityCall ==
    /\ ~entity.exists
    /\ \E uid \in UserIdInputs, genOk \in BOOLEAN, signOk \in BOOLEAN,
          subGenOk \in BOOLEAN, bindOk \in BOOLEAN :
          LET r == NewEntity(uid, config, rsaPrimes, genOk, signOk, subGenOk, bindOk) IN
          /\ entity' = r.entity
          /\ rsaPrimes' = r.primes
          /\ last' = Result("NewEntity", r.err, NoMaterial, uid, r.signCalls)
    /\ UNCHANGED config
    /\ UNCHANGED pkeskVars
    /\ UNCHANGED rsaVars
    /\ UNCHANGED checksumVars

AddUserIdCall ==
    /\ entity.exists
    /\ \E uid \in UserIdInputs, signOk \in BOOLEAN :
          LET r == addUserId(entity, uid, config, signOk) IN
          /\ entity' = r.entity
          /\ last' = Result("AddUserId", r.err, NoMaterial, uid, r.signCalls)
    /\ UNCHANGED <<config, rsaPrimes>>
    /\ UNCHANGED pkeskVars
    /\ UNCHANGED rsaVars
    /\ UNCHANGED checksumVars

AddSigningSubkeyCall ==
    /\ entity.exists
    /\ Len(entity.subkeys) < MaxSubkeys
    /\ \E genOk \in BOOLEAN, crossOk \in BOOLEAN, bindOk \in BOOLEAN :
          LET r == AddSigningSubkey(entity, config, rsaPrimes, genOk, crossOk, bindOk) IN
          /\ entity' = r.entity
          /\ rsaPrimes' = r.primes
          /\ last' = Result("AddSigningSubkey", r.err, NoMaterial, NoUserId, r.signCalls)
    /\ UNCHANGED config
    /\ UNCHANGED pkeskVars
    /\ UNCHANGED rsaVars
    /\ UNCHANGED checksumVars

AddEncryptionSubkeyCall ==
    /\ entity.exists
    /\ Len(entity.subkeys) < MaxSubkeys
    /\ \E genOk \in BOOLEAN, bindOk \in BOOLEAN :
          LET r == addEncryptionSubkey(entity, config, rsaPrimes, genOk, bindOk) IN
          /\ entity' = r.entity
          /\ rsaPrimes' = r.primes
          /\ last' = Result("AddEncryptionSubkey", r.err, NoMaterial, NoUserId, r.signCalls)
    /\ UNCHANGED config
    /\ UNCHANGED pkeskVars
    /\ UNCHANGED rsaVars
    /\ UNCHANGED checksumVars

NextEntity ==
    \/ NewSignerCall
    \/ NewDecrypterCall
    \/ NewEntityCall
    \/ AddUserIdCall
    \/ AddSigningSubkeyCall
    \/ AddEncryptionSubkeyCall

-----------------------------------------------------------------------------
(* Properties of key generation and entity building *)

PQAlgos == DilithiumAlgos \cup SphincsPlusAlgos \cup KyberAlgos

\* a generation call that the version gate stops
GatedCall ==
    /\ ~config.V5Keys
    /\ \/ last.op = "newSigner" /\ config.algo \in DilithiumAlgos \cup SphincsPlusAlgos
       \/ last.op = "newDecrypter" /\ config.algo \in PQAlgos

\* C9: newSigner for a Dilithium hybrid or SPHINCS+, and newDecrypter for a
\* Kyber hybrid, a Dilithium hybrid or SPHINCS+, called without V5Keys, fail
\* with an error of kind InvalidArgument and produce no key material.
C9_GateIsInvalidArgument ==
    GatedCall => last.err = "InvalidArgument" /\ last.key = NoMaterial

SubkeyNames == 1..Len(entity.subkeys)

CrossSigned(i) ==
    LET sk == entity.subkeys[i]
        emb == sk.EmbeddedSignature
    IN  /\ emb.SigType = SigTypePrimaryKeyBinding
        /\ emb.signed
        /\ emb.signer = sk.name
        /\ emb.hashKey = PrimaryName
        /\ emb.pub = sk.name
        /\ sk.Sig.SigType = SigTypeSubkeyBinding
        /\ sk.Sig.signed
        /\ sk.Sig.signer = PrimaryName
        /\ emb.step < sk.Sig.step

IsEncryptionSubkey(i) ==
    \/ entity.subkeys[i].Sig.FlagEncryptStorage
    \/ entity.subkeys[i].Sig.FlagEncryptCommunications

\* C10: in every entity built by NewEntity followed by AddUserId,
\* AddEncryptionSubkey and AddSigningSubkey calls, a subkey whose binding has
\* the sign flag embeds a signature of type 0x19 made with the subkey's own
\* private key over the primary and the subkey, made before the primary signs
\* the 0x18 binding; the binding of an encryption subkey has no sign flag.
C10_SigningSubkeysCrossSigned ==
    \A i \in SubkeyNames :
        /\ entity.subkeys[i].name = i
        /\ entity.subkeys[i].Sig.FlagSign => CrossSigned(i)
        /\ IsEncryptionSubkey(i) => ~entity.subkeys[i].Sig.FlagSign

C10_Witness ==
    /\ entity.exists
    /\ last.op = "AddSigningSubkey"
    /\ last.err = "nil"
    /\ \E i \in SubkeyNames : entity.subkeys[i].Sig.FlagSign
    /\ \E j \in SubkeyNames : IsEncryptionSubkey(j)

\* an AddUserId call was given an id the entity already has
DuplicateAdd ==
    /\ entity.exists
    /\ last'.op = "AddUserId"
    /\ last'.uid.valid
    /\ last'.uid.id \in DOMAIN entity.identities

\* C11: an AddUserId whose canonical id is already a key of the identities
\* fails with InvalidArgument, makes no signing call and leaves the
\* identities map unchanged; and no call changes the identity an id maps to,
\* so each id keeps the identity of the first successful call for it.
C11_DuplicateUserId ==
    [][/\ DuplicateAdd =>
            /\ last'.err = "InvalidArgument"
            /\ last'.signCalls = 0
            /\ entity'.identities = entity.identities
       /\ entity.exists =>
            \A id \in DOMAIN entity.identities :
                /\ id \in DOMAIN entity'.identities
                /\ entity'.identities[id] = entity.identities[id]]_vars

C11_Witness ==
    /\ last.op = "AddUserId"
    /\ last.err = "InvalidArgument"
    /\ last.uid.valid
    /\ last.uid.id \in DOMAIN entity.identities
    /\ Cardinality(DOMAIN entity.identities) = 2

\* a list that names no algorithm twice
NoDuplicate(list) == \A i, j \in 1..Len(list) : list[i] = list[j] => i = j

\* C17: the self-signature of every identity lists the configured hash and
\* then SHA-256 only if that is another, the configured cipher and then
\* AES-128 only if that is another, no compression and then the configured
\* compression if it is not none, the configured AEAD mode and then EAX only
\* if that is another; no list names an algorithm twice.
C17_PreferredLists ==
    entity.exists =>
        \A id \in DOMAIN entity.identities :
            LET sig == entity.identities[id].SelfSignature IN
            /\ sig.PreferredHash =
                  (IF config.Hash = CryptoSHA256 THEN <<HashIdSHA256>>
                   ELSE <<hashToHashId(config.Hash), HashIdSHA256>>)
            /\ sig.PreferredSymmetric =
                  (IF config.Cipher = CipherAES128 THEN <<CipherAES128>>
                   ELSE <<config.Cipher, CipherAES128>>)
            /\ sig.PreferredCompression =
                  (IF config.Compression = CompressionNone THEN <<CompressionNone>>
                   ELSE <<CompressionNone, config.Compression>>)
            /\ sig.PreferredAEAD =
                  (IF config.AEADMode = AEADModeEAX THEN <<AEADModeEAX>>
                   ELSE <<config.AEADMode, AEADModeEAX>>)
            /\ NoDuplicate(sig.PreferredHash)
            /\ NoDuplicate(sig.PreferredSymmetric)
            /\ NoDuplicate(sig.PreferredCompression)
            /\ NoDuplicate(sig.PreferredAEAD)

\* C17 witness: two identities signed under a configuration of SHA-256,
\* AES-256, ZIP and GCM
C17_Witness ==
    /\ entity.exists
    /\ Cardinality(DOMAIN entity.identities) = 2
    /\ config.Hash = CryptoSHA256
    /\ config.Cipher = CipherAES256
    /\ \A id \in DOMAIN entity.identities :
          /\ entity.identities[id].SelfSignature.PreferredHash = <<HashIdSHA256>>
          /\ entity.identities[id].SelfSignature.PreferredSymmetric
                = <<CipherAES256, CipherAES128>>
          /\ entity.identities[id].SelfSignature.PreferredCompression
                = <<CompressionNone, CompressionZIP>>
          /\ entity.identities[id].SelfSignature.PreferredAEAD
                = <<AEADModeGCM, AEADModeEAX>>

\* the identities whose self-signature has IsPrimaryId set
PrimaryIds(t) ==
    {id \in DOMAIN t.identities : t.identities[id].SelfSignature.IsPrimaryId}

\* C21: in every entity reached by NewEntity and then AddUserId calls,
\* successful or failed, exactly one identity has a self-signature with
\* IsPrimaryId set, and it is the identity added first, the one NewEntity
\* added; every identity added later has IsPrimaryId unset.
C21_OnePrimaryIdentity ==
    [][/\ (last'.op = "NewEntity" /\ last'.err = "nil") =>
             /\ DOMAIN entity'.identities = {last'.uid.id}
             /\ PrimaryIds(entity') = {last'.uid.id}
       /\ entity.exists =>
             /\ \A id \in DOMAIN entity.identities :
                   /\ id \in DOMAIN entity'.identities
                   /\ entity'.identities[id] = entity.identities[id]
             /\ \A id \in DOMAIN entity'.identities \ DOMAIN entity.identities :
                   ~entity'.identities[id].SelfSignature.IsPrimaryId
             /\ PrimaryIds(entity') = PrimaryIds(entity)
       /\ entity'.exists => Cardinality(PrimaryIds(entity')) = 1]_vars

\* C21 witness: a third identity was added and is not the primary one
C21_Witness ==
    /\ entity.exists
    /\ last.op = "AddUserId"
    /\ last.err = "nil"
    /\ Cardinality(DOMAIN entity.identities) = 3
    /\ Cardinality(PrimaryIds(entity)) = 1
    /\ last.uid.id \notin PrimaryIds(entity)

\* the step is a call of AddUserId, AddSigningSubkey or AddEncryptionSubkey
AdderCall == last'.op \in {"AddUserId", "AddSigningSubkey", "AddEncryptionSubkey"}

\* C20: when AddUserId, AddEncryptionSubkey or AddSigningSubkey returns an
\* error, the identities and the subkeys of the entity are what they were
\* before the call; an identity or a subkey is added only by a call that
\* returns no error, with every signature of it made.
C20_ErrorsLeaveEntity ==
    [][(entity.exists /\ AdderCall) =>
        /\ last'.err # "nil" =>
              /\ entity'.identities = entity.identities
              /\ entity'.subkeys = entity.subkeys
        /\ \A id \in DOMAIN entity'.identities \ DOMAIN entity.identities :
              /\ last'.err = "nil"
              /\ entity'.identities[id].SelfSignature.signed
        /\ Len(entity'.subkeys) # Len(entity.subkeys) =>
              /\ last'.err = "nil"
              /\ entity'.subkeys = Append(entity.subkeys, entity'.subkeys[Len(entity'.subkeys)])
              /\ entity'.subkeys[Len(entity'.subkeys)].Sig.signed
              /\ entity'.subkeys[Len(entity'.subkeys)].Sig.FlagSign =>
                    entity'.subkeys[Len(entity'.subkeys)].EmbeddedSignature.signed]_vars

\* C20 witness: AddSigningSubkey failed at its second signature and the
\* entity has the one subkey and the one identity NewEntity gave it
C20_Witness ==
    /\ entity.exists
    /\ last.op = "AddSigningSubkey"
    /\ last.err # "nil"
    /\ last.signCalls = 2
    /\ Len(entity.subkeys) = 1
    /\ Cardinality(DOMAIN entity.identities) = 1

\* an RSA key is asked for with a modulus size the generation accepts
RSAGeneration == config.algo = PubKeyAlgoRSA /\ config.bits >= MinRSABits

\* the first pass of generateRSAKeyWithPrimes accepts the pair: the primes
\* differ, their product has the requested bit length and e is invertible
\* modulo the totient
Accepted(pair) ==
    /\ pair[1] # pair[2]
    /\ BitLen(pair[1] * pair[2]) = ScaledBits(config.bits)
    /\ ModInverse(RSAPublicExponent, (pair[1] - 1) * (pair[2] - 1)) # -1

\* the step is a call of newSigner or newDecrypter
GeneratorCall == last'.op \in {"newSigner", "newDecrypter"}

\* every key of the entity, and the key a newSigner or newDecrypter call
\* just returned
KeysMade ==
    (IF entity.exists
     THEN {<<"entity", 0, entity.primary>>}
            \cup {<<"entity", i, entity.subkeys[i].key>> : i \in 1..Len(entity.subkeys)}
     ELSE {})
    \cup (IF last.op \in {"newSigner", "newDecrypter"} /\ last.err = "nil"
         THEN {<<"call", 0, last.key>>} ELSE {})

\* no prepared prime is in two keys
NoPrimeInTwoKeys ==
    \A k1, k2 \in KeysMade :
        k1 # k2 => \A i \in 1..Len(k1[3].primes), j \in 1..Len(k2[3].primes) :
                      k1[3].primes[i] # k2[3].primes[j]

\* the frame of C18: what happens to config.RSAPrimes, and which keys the
\* pairs go to
PrimesConsumed(used(_)) ==
    /\ (GeneratorCall /\ RSAGeneration /\ Len(rsaPrimes) >= 2) =>
          /\ rsaPrimes' = SubSeq(rsaPrimes, 3, Len(rsaPrimes))
          /\ last'.err = "nil" => last'.key.primes = used(SubSeq(rsaPrimes, 1, 2))
    /\ (GeneratorCall /\ RSAGeneration /\ Len(rsaPrimes) < 2) =>
          /\ rsaPrimes' = rsaPrimes
          /\ last'.err = "nil" => last'.key.primes = <<>>
    /\ (last'.op = "NewEntity" /\ last'.err = "nil" /\ RSAGeneration
            /\ Len(rsaPrimes) >= 4) =>
          /\ rsaPrimes' = SubSeq(rsaPrimes, 5, Len(rsaPrimes))
          /\ entity'.primary.primes = used(SubSeq(rsaPrimes, 1, 2))
          /\ entity'.subkeys[1].key.primes = used(SubSeq(rsaPrimes, 3, 4))
    /\ NoPrimeInTwoKeys'

\* the key is made of the pair handed to its generation
UsedAsGiven(pair) == pair

\* the key is made of the pair if the first pass accepts it, and of primes
\* drawn from the random source otherwise
UsedIfAccepted(pair) == IF Accepted(pair) THEN pair ELSE <<>>

\* C18 as stated: an RSA key generation through newSigner or newDecrypter
\* with at least two prepared primes removes the first two, in order, and
\* the key is made of them; with fewer than two the list is unchanged;
\* NewEntity with four prepared primes makes the primary of the first two
\* and the encryption subkey of the next two; no prepared prime is in two
\* keys.
C18_PreparedPrimesUsed == [][PrimesConsumed(UsedAsGiven)]_vars

\* C18, amended: as above, but the key is made of the two primes removed
\* only if generateRSAKeyWithPrimes accepts them (distinct, product of the
\* requested bit length, e invertible); a pair it rejects is removed all the
\* same and the key is made of primes drawn from the random source.
C18_PreparedPrimesConsumed == [][PrimesConsumed(UsedIfAccepted)]_vars

\* C18 witness: NewEntity with four fitting primes made the primary of the
\* first two and the subkey of the next two
C18_Witness ==
    /\ last.op = "NewEntity"
    /\ last.err = "nil"
    /\ entity.primary.primes = <<241, 251>>
    /\ entity.subkeys[1].key.primes = <<239, 233>>
    /\ rsaPrimes = <<>>

\* the algorithms newDecrypter makes a key for
DecrypterFamilies ==
    {PubKeyAlgoRSA, PubKeyAlgoEdDSA, PubKeyAlgoECDSA, PubKeyAlgoECDH}
        \cup DilithiumAlgos \cup SphincsPlusAlgos \cup KyberAlgos

\* the key newDecrypter is to make for configuration cfg
SubstitutedKey(cfg, key) ==
    /\ cfg.algo \in {PubKeyAlgoEdDSA, PubKeyAlgoECDSA} =>
            /\ key.algo = PubKeyAlgoECDH
            /\ key.curve = "config"
            /\ key.kdf = "SHA512/AES256"
    /\ cfg.algo \in DilithiumAlgos \cup SphincsPlusAlgos =>
            /\ key.algo \in KyberAlgos
            /\ key.algo = GetMatchingKyberKem(cfg.algo, cfg.largeParam)
    /\ cfg.algo = PubKeyAlgoRSA => key.algo = PubKeyAlgoRSA
    /\ cfg.algo \in KyberAlgos \cup {PubKeyAlgoECDH} => key.algo = cfg.algo

-----------------------------------------------------------------------------
(* generateRSAKeyWithPrimes as a state machine *)

\* the calls explored, <<nprimes, bits, prepopulatedPrimes>>: each guard
\* failing; two primes with no, fitting, equal, short and spare prepopulated
\* primes; three and seven primes; a prime p with e dividing p - 1
RSACalls ==
    ({1, 2} \X {MinRSABits - 1, 1280, 1792}
            \X {<<>>, <<29, 31>>, <<29, 29>>, <<11, 13>>, <<29, 31, 53>>})
    \cup {<<3, 2304, <<>>>>, <<3, 2304, <<53, 59, 61>>>>,
          <<2, 2816, <<917519, 3, 1543, 1549>>>>,
          <<7, 2944, <<>>>>, <<7, 2944, <<3, 5, 7, 11, 13, 17, 19>>>>}

RSACall(nprimes, bits, given) ==
    [pc |-> "loop", nprimes |-> nprimes, bits |-> bits, given |-> given,
     prepopulatedPrimes |-> given, primes |-> [i \in 1..nprimes |-> 0],
     err |-> "none", key |-> NoRSAKey]

InitRSA ==
    /\ PipelineIdle
    /\ EntityIdle
    /\ ChecksumIdle
    /\ rsa = [RSACall(0, 0, <<>>) EXCEPT !.pc = "idle"]

\* the call and the two guards in front of the loop
GenerateRSAKeyWithPrimes ==
    /\ rsa.pc = "idle"
    /\ \E args \in RSACalls :
          LET nprimes == args[1]
              bits    == args[2]
              given   == args[3]
          IN
          rsa' = IF nprimes < 2 \/ bits < MinRSABits
                 THEN [RSACall(nprimes, bits, given) EXCEPT !.pc = "done",
                                                           !.err = "PlainError"]
                 ELSE RSACall(nprimes, bits, given)
    /\ UNCHANGED <<pkeskVars, entityVars, checksumVars>>

\* one pass of the loop NextSetOfPrimes
NextSetOfPrimes ==
    /\ rsa.pc = "loop"
    /\ \E randOk \in BOOLEAN :
         \E f \in FillPrimes(1, rsa.nprimes, InitialTodo(rsa.nprimes, ScaledBits(rsa.bits)),
                             rsa.prepopulatedPrimes, rsa.primes, randOk) :
            rsa' = IF f.err # "nil"
                   THEN [rsa EXCEPT !.pc = "done", !.err = f.err, !.primes = f.primes,
                                    !.prepopulatedPrimes = f.prepopulatedPrimes]
                   ELSE IF PassOutcome(f.primes, ScaledBits(rsa.bits)) = "key"
                   THEN [rsa EXCEPT !.pc = "done", !.err = "nil", !.primes = f.primes,
                                    !.prepopulatedPrimes = f.prepopulatedPrimes,
                                    !.key = KeyOf(f.primes)]
                   ELSE [rsa EXCEPT !.primes = f.primes,
                                    !.prepopulatedPrimes = f.prepopulatedPrimes]
    /\ UNCHANGED <<pkeskVars, entityVars, checksumVars>>

NextRSA == GenerateRSAKeyWithPrimes \/ NextSetOfPrimes

\* the call returned
Returned == rsa.pc = "done"

\* C12: for valid inputs (nprimes >= 2, bits >= 1024, any prepopulated primes
\* and any random source) generateRSAKeyWithPrimes eventually returns a key
\* or an error: the loop does not restart forever.
C12_GenerationReturns == (rsa.pc = "loop") ~> Returned

\* the call returned a key
KeyReturned == Returned /\ rsa.err = "nil"

\* C13: whenever generateRSAKeyWithPrimes returns a key, for any nprimes >= 2
\* and with or without prepopulated primes, the returned primes are pairwise
\* distinct, n is their product and has exactly the requested bit length,
\* e = 65537 and d * e is congruent to 1 modulo the product of the p_i - 1.
C13_KeyIsSound ==
    KeyReturned =>
        LET k == rsa.key IN
        /\ Len(k.Primes) = rsa.nprimes
        /\ \A i \in 1..Len(k.Primes) : \A j \in 1..Len(k.Primes) :
                i # j => k.Primes[i] # k.Primes[j]
        /\ k.N = Product(k.Primes)
        /\ BitLen(k.N) = ScaledBits(rsa.bits)
        /\ k.E = 65537
        /\ k.D \in 1..(Totient(k.Primes) - 1)
        /\ MulMod(k.D, k.E, Totient(k.Primes)) = 1

\* a key was returned after the prepopulated primes were turned down
C13_Witness ==
    /\ KeyReturned
    /\ Len(rsa.given) >= rsa.nprimes
    /\ rsa.key.Primes # SubSeq(rsa.given, 1, rsa.nprimes)

-----------------------------------------------------------------------------
(* encodeChecksumKey and decodeChecksumKey as a round trip *)

\* the longest session key taken through the round trip
MaxKeyLen == 64

\* session keys of every length 0..MaxKeyLen: all zero, all one, all 255,
\* and a ramp of differing bytes
ChecksumKeys ==
    {[i \in 1..n |-> b] : n \in 0..MaxKeyLen, b \in {0, 1, 255}}
        \cup {[i \in 1..n |-> (i * 37) % 256] : n \in 0..MaxKeyLen}

InitChecksum ==
    /\ PipelineIdle
    /\ EntityIdle
    /\ RSAIdle
    /\ ck = [pc |-> "idle", key |-> <<>>, buffer |-> <<>>, decoded |-> <<>>,
             err |-> "none"]

\* encodeChecksumKey on a buffer of len(key)+2 bytes
EncodeChecksumKey ==
    /\ ck.pc = "idle"
    /\ \E key \in ChecksumKeys :
          ck' = [ck EXCEPT !.pc = "encoded", !.key = key,
                           !.buffer = encodeChecksumKey(key)]
    /\ UNCHANGED <<pkeskVars, entityVars, rsaVars>>

\* decodeChecksumKey on what encodeChecksumKey wrote
DecodeChecksumKey ==
    /\ ck.pc = "encoded"
    /\ ck' = [ck EXCEPT !.pc = "decoded",
                        !.decoded = decodeChecksumKey(ck.buffer).key,
                        !.err = decodeChecksumKey(ck.buffer).err]
    /\ UNCHANGED <<pkeskVars, entityVars, rsaVars>>

NextChecksum == EncodeChecksumKey \/ DecodeChecksumKey

\* C15: for every key k of length 0..64, decodeChecksumKey of what
\* encodeChecksumKey wrote for k returns k and no error.
C15_ChecksumRoundTrip ==
    ck.pc = "decoded" => (ck.err = "nil" /\ ck.decoded = ck.key)

C15_Witness ==
    /\ ck.pc = "decoded"
    /\ Len(ck.key) = MaxKeyLen
    /\ checksumKeyMaterial(ck.key) > 255
    /\ ck.decoded = ck.key

-----------------------------------------------------------------------------
(* Specifications *)

\* the packet pipeline
Spec == InitPKESK /\ [][NextPKESK]_vars

\* key generation and entity building
SpecEntity == InitEntity /\ [][NextEntity]_vars

\* RSA key generation from primes
SpecRSA == InitRSA /\ [][NextRSA]_vars

\* the same, with a loop that is not abandoned halfway
SpecRSAFair == SpecRSA /\ WF_vars(NextSetOfPrimes)

\* keys through encodeChecksumKey and decodeChecksumKey
SpecChecksum == InitChecksum /\ [][NextChecksum]_vars

=============================================================================
